---- MODULE Spec2Model ----
(***************************************************************************)
(* A model of datature_hub/hub.py: the HubModel handle, the registry      *)
(* lookup made at construction, the download / verify / extract sequence  *)
(* of download_model with its rollback, and the accessors that read the   *)
(* model folder.                                                           *)
(*                                                                         *)
(* A file's content is a sequence of blocks.  A block of an archive is    *)
(* one zip member: 1 is saved_model, 2 is label_map.pbtxt, 3 is           *)
(* pipeline.config, 0 is a member whose data is damaged.  An extracted    *)
(* file holds the content of the archive it was extracted from.           *)
(***************************************************************************)
EXTENDS Integers, Sequences, FiniteSets, TLC

\* ------------------------------------------------------------------ bounds
\* The number of bytes one block of a file stands for.
BlockBytes == 2048

\* Counters of network requests saturate here.
MaxCount == 3

\* --------------------------------------------------------------- constants
NoneVal == "None"

Threads == {"t1", "t2"}
Handles == {"h1", "h2"}
Keys == {"k"}
Secrets == {NoneVal, "s"}
HubDirArgs == {NoneVal, "/hub"}
Endpoints == {"https://api.datature.io/hub", "alt"}
ModelTypes == {"TF", "OTHER"}

FileNames == {"saved_model", "label_map.pbtxt", "pipeline.config", "model.zip"}

\* The archive the registry's hash is the SHA-256 of.
GenuineArchive == <<1, 2, 3>>

\* The bodies a download server may answer with: the genuine archive, a
\* complete archive with other content, an archive without pipeline.config,
\* an archive whose second member is damaged, and a body that is no archive.
Bodies == {<<1, 2, 3>>, <<2, 1, 3>>, <<1, 2>>, <<1, 0, 3>>, <<0>>}

Min(a, b) == IF a < b THEN a ELSE b

Bump(n) == Min(n + 1, MaxCount)

\* ------------------------------------------------------------------- state
VARIABLES
    hub_endpoint,   \* _config["hub_endpoint"]
    handle,         \* the HubModel objects, by name
    disk,           \* the model folders, by path
    th              \* each caller's position and locals

vars == <<hub_endpoint, handle, disk, th>>

\* _config
config_default == "https://api.datature.io/hub"

\* get_default_hub_dir
get_default_hub_dir == "~/.dataturehub"

Roots == {get_default_hub_dir, "/hub"}
Paths == {<<r, k>> : r \in Roots, k \in Keys}

NoFile == [present |-> FALSE, data |-> <<>>]
File(d) == [present |-> TRUE, data |-> d]
NoFiles == [f \in FileNames |-> NoFile]
AbsentDir == [exists |-> FALSE, files |-> NoFiles]

NoUrl == [ep |-> "", key |-> ""]

NoHandle ==
    [alive |-> FALSE, model_key |-> "", project_secret |-> NoneVal,
     height_width_cache |-> <<>>, url |-> NoUrl, checksum |-> 0,
     model_dir |-> <<>>, posts |-> 0]

IdleRec ==
    [pc |-> "idle", op |-> "", h |-> "", force |-> FALSE,
     progress |-> FALSE, model_type |-> "", has_length |-> FALSE,
     data |-> <<>>, todo |-> <<>>, exc |-> "", val |-> <<>>,
     body |-> <<>>, stderr |-> <<>>,
     gets |-> 0, posts |-> 0, reg |-> <<>>, warned |-> FALSE,
     computed |-> FALSE, downloads |-> 0, rm_refused |-> FALSE]

\* ------------------------------------------------------ _get_sha256_hash_of_file
RECURSIVE HashUpdate(_, _)
\* hash_f.update(chunk): an injective fold of the blocks fed so far.
HashUpdate(h, chunk) ==
    IF chunk = <<>> THEN h
    ELSE HashUpdate(h * 5 + Head(chunk) + 1, Tail(chunk))

Take(s, n) == SubSeq(s, 1, Min(n, Len(s)))
Drop(s, n) == SubSeq(s, Min(n, Len(s)) + 1, Len(s))

\* chunk_size of _get_sha256_hash_of_file, in blocks
hash_chunk_size == (1024 * 1024) \div BlockBytes

RECURSIVE HashLoop(_, _)
HashLoop(h, rest) ==
    IF Take(rest, hash_chunk_size) = <<>> THEN h
    ELSE HashLoop(HashUpdate(h, Take(rest, hash_chunk_size)),
                  Drop(rest, hash_chunk_size))

get_sha256_hash_of_file(content) == HashLoop(0, content)

\* The hash the registry reports for the model.
RegistryHash == get_sha256_hash_of_file(GenuineArchive)

\* ------------------------------------------------------------ the registry
\* What the registry at `endpoint` may answer to a POST for `key`.
RegistryResponses(endpoint, key) ==
    {[reachable |-> FALSE, http |-> 0, status |-> "",
      projectSecretNeeded |-> FALSE, signedUrl |-> NoUrl, hash |-> 0]}
    \cup
    {[reachable |-> TRUE, http |-> c, status |-> s,
      projectSecretNeeded |-> n,
      signedUrl |-> [ep |-> endpoint, key |-> key], hash |-> RegistryHash] :
        c \in {200, 403, 500}, s \in {"ready", "pending"}, n \in BOOLEAN}

\* response.raise_for_status()
raise_for_status(http) == 400 <= http /\ http < 600

\* A resolver that reads the status field before raise_for_status.
get_model_url_and_hash_status_first(resp, project_secret) ==
    IF ~resp.reachable
    THEN [exc |-> "ConnectionError", url |-> NoUrl, checksum |-> 0,
          warned |-> FALSE]
    ELSE IF resp.status # "ready"
    THEN [exc |-> "RuntimeError: not ready", url |-> NoUrl, checksum |-> 0,
          warned |-> FALSE]
    ELSE IF 400 <= resp.http /\ resp.http < 600
    THEN [exc |-> "HTTPError", url |-> NoUrl, checksum |-> 0,
          warned |-> FALSE]
    ELSE [exc |-> "", url |-> resp.signedUrl, checksum |-> resp.hash,
          warned |-> (~resp.projectSecretNeeded /\ project_secret # NoneVal)]

\* HubModel._get_model_url_and_hash, on the response to its POST.
get_model_url_and_hash(resp, project_secret) ==
    IF ~resp.reachable
    THEN [exc |-> "ConnectionError", url |-> NoUrl, checksum |-> 0,
          warned |-> FALSE]
    ELSE IF raise_for_status(resp.http)
    THEN [exc |-> "HTTPError", url |-> NoUrl, checksum |-> 0,
          warned |-> FALSE]
    ELSE IF resp.status # "ready"
    THEN [exc |-> "RuntimeError: not ready", url |-> NoUrl, checksum |-> 0,
          warned |-> FALSE]
    ELSE [exc |-> "", url |-> resp.signedUrl, checksum |-> resp.hash,
          warned |-> (~resp.projectSecretNeeded /\ project_secret # NoneVal)]

\* model_dir of HubModel.__init__
model_dir_of(hub_dir, model_key) ==
    IF hub_dir = NoneVal THEN <<get_default_hub_dir, model_key>>
    ELSE <<hub_dir, model_key>>

\* _set_hub_endpoint
set_hub_endpoint(t) ==
    /\ th[t].pc = "idle"
    /\ \E endpoint \in Endpoints : hub_endpoint' = endpoint
    /\ UNCHANGED <<handle, disk, th>>

\* A constructor that leaves a handle behind when the registry call raises.
init_handle_binds(t, h, model_key, project_secret, hub_dir, resp) ==
    LET r == IF ~resp.reachable
             THEN [exc |-> "ConnectionError", url |-> NoUrl, checksum |-> 0]
             ELSE IF 400 <= resp.http /\ resp.http < 600
             THEN [exc |-> "HTTPError", url |-> NoUrl, checksum |-> 0]
             ELSE IF resp.status # "ready"
             THEN [exc |-> "RuntimeError: not ready", url |-> NoUrl,
                   checksum |-> 0]
             ELSE [exc |-> "", url |-> resp.signedUrl, checksum |-> resp.hash]
    IN
    /\ handle' = [handle EXCEPT ![h] =
            [alive |-> TRUE, model_key |-> model_key,
             project_secret |-> project_secret, height_width_cache |-> <<>>,
             url |-> r.url, checksum |-> r.checksum,
             model_dir |-> IF hub_dir = NoneVal
                           THEN <<"~/.dataturehub", model_key>>
                           ELSE <<hub_dir, model_key>>,
             posts |-> 1]]
    /\ th' = [th EXCEPT ![t] =
            [IdleRec EXCEPT !.op = "__init__", !.h = h, !.posts = 1,
                            !.reg = <<resp>>,
                            !.pc = IF r.exc = "" THEN "returned" ELSE "raised",
                            !.exc = r.exc]]

\* HubModel.__init__: the registry is asked once; when it raises no object
\* is bound.
init_handle(t, h, model_key, project_secret, hub_dir, resp) ==
    LET r == get_model_url_and_hash(resp, project_secret)
        base == [IdleRec EXCEPT !.op = "__init__", !.h = h, !.posts = 1,
                                !.reg = <<resp>>, !.warned = r.warned]
    IN  IF r.exc # ""
        THEN /\ th' = [th EXCEPT ![t] = [base EXCEPT !.pc = "raised",
                                                      !.exc = r.exc]]
             /\ UNCHANGED handle
        ELSE /\ handle' = [handle EXCEPT ![h] =
                    [alive |-> TRUE, model_key |-> model_key,
                     project_secret |-> project_secret,
                     height_width_cache |-> <<>>,
                     url |-> r.url, checksum |-> r.checksum,
                     model_dir |-> model_dir_of(hub_dir, model_key),
                     posts |-> 1]]
             /\ th' = [th EXCEPT ![t] = [base EXCEPT !.pc = "returned"]]

Construct(t, h) ==
    /\ th[t].pc = "idle"
    /\ ~handle[h].alive
    /\ \E model_key \in Keys, project_secret \in Secrets,
          hub_dir \in HubDirArgs :
        \E resp \in RegistryResponses(hub_endpoint, model_key) :
            init_handle(t, h, model_key, project_secret, hub_dir, resp)
    /\ UNCHANGED <<hub_endpoint, disk>>

\* The caller takes the value or the exception of the call that ended.
Finish(t) ==
    /\ th[t].pc \in {"returned", "raised"}
    /\ th' = [th EXCEPT ![t] = IdleRec]
    /\ UNCHANGED <<hub_endpoint, handle, disk>>

\* --------------------------------------------------------- the file system
Dir(h) == disk[handle[h].model_dir]

WithFile(d, name, f) == [d EXCEPT !.files[name] = f]

\* What shutil.rmtree(folder, ignore_errors=True) may leave of folder `d`:
\* nothing, or, when the file system refuses removals, the folder with the
\* entries that could not be removed.
rmtree(d, refused) ==
    IF refused /\ d.exists
    THEN {[exists |-> TRUE,
           files |-> [f \in FileNames |->
                         IF f \in keep THEN d.files[f] ELSE NoFile]] :
             keep \in SUBSET {f \in FileNames : d.files[f].present}}
    ELSE {AbsentDir}

\* zipfile.ZipFile(path): the archive's directory is at its end.
IsZip(content) == content # <<>> /\ content[Len(content)] # 0

MemberName(m) ==
    CASE m = 1 -> "saved_model"
      [] m = 2 -> "label_map.pbtxt"
      [] m = 3 -> "pipeline.config"

\* What the download server may answer to the GET of the signed URL.
DownloadResponses ==
    {[reachable |-> FALSE, http |-> 0, has_length |-> FALSE, body |-> <<>>],
     [reachable |-> TRUE, http |-> 404, has_length |-> FALSE, body |-> <<>>]}
    \cup
    {[reachable |-> TRUE, http |-> 200, has_length |-> l, body |-> b] :
        l \in BOOLEAN, b \in Bodies}

\* chunk_size of response.iter_content
iter_chunk_bytes == 4096

iter_chunk_size == iter_chunk_bytes \div BlockBytes

Goto(t, pc) == th' = [th EXCEPT ![t].pc = pc]

\* An exception inside the try block of download_model.
Raise(r, exc) == [r EXCEPT !.pc = "dm_except", !.exc = exc, !.body = <<>>]

\* sys.stderr.write(msg), under `if on:`
Say(r, on, msg) == IF on THEN [r EXCEPT !.stderr = Append(@, msg)] ELSE r

SetDir(h, d) == disk' = [disk EXCEPT ![handle[h].model_dir] = d]

\* A step of caller t takes one of the outcomes `outs`: its locals and the
\* model folder of its handle.
Takes(t, outs) ==
    /\ \E o \in outs :
        /\ th' = [th EXCEPT ![t] = o.rec]
        /\ SetDir(th[t].h, o.d)
    /\ UNCHANGED <<hub_endpoint, handle>>

\* ----------------------------------------------------------- download_model
\* A download_model that waits while another call works on the same folder.
call_download_model_locked(t, h) ==
    /\ th[t].pc = "idle"
    /\ handle[h].alive
    /\ \A u \in Threads \ {t} :
          th[u].pc = "idle" \/ handle[th[u].h].model_dir # handle[h].model_dir
    /\ \E model_type \in ModelTypes, progress \in BOOLEAN :
        th' = [th EXCEPT ![t] =
                 [IdleRec EXCEPT !.pc = "dm_mkdir", !.op = "download_model",
                                 !.downloads = 1,
                                 !.h = h, !.model_type = model_type,
                                 !.progress = progress]]
    /\ UNCHANGED <<hub_endpoint, handle, disk>>

call_download_model(t, h) ==
    /\ th[t].pc = "idle"
    /\ handle[h].alive
    /\ \E model_type \in ModelTypes, progress \in BOOLEAN :
        th' = [th EXCEPT ![t] =
                 [IdleRec EXCEPT !.pc = "dm_mkdir", !.op = "download_model",
                                 !.downloads = 1,
                                 !.h = h, !.model_type = model_type,
                                 !.progress = progress]]
    /\ UNCHANGED <<hub_endpoint, handle, disk>>

\* Path(model_folder).mkdir(parents=True, exist_ok=True), outside the try.
dm_mkdir_next(r, d) ==
    {[rec |-> [r EXCEPT !.pc = "dm_try"], d |-> [d EXCEPT !.exists = TRUE]]}
    \cup
    (IF d.exists THEN {}
     ELSE {[rec |-> [r EXCEPT !.pc = "raised", !.exc = "OSError: mkdir"],
            d |-> d]})

dm_mkdir(t) ==
    /\ th[t].pc = "dm_mkdir"
    /\ Takes(t, dm_mkdir_next(th[t], Dir(th[t].h)))

\* A model type test placed before the try: its ValueError reaches the caller
\* without the rollback.
dm_try_outside(t) ==
    /\ th[t].pc = "dm_try"
    /\ IF th[t].model_type = "TF"
       THEN Goto(t, "sv_open")
       ELSE th' = [th EXCEPT ![t].pc = "raised", ![t].exc = "ValueError"]
    /\ UNCHANGED <<hub_endpoint, handle, disk>>

\* if model_type == ModelType.TF ... else raise ValueError
dm_try_next(r, d) ==
    {[rec |-> IF r.model_type = "TF" THEN [r EXCEPT !.pc = "sv_open"]
              ELSE Raise(r, "ValueError"),
      d |-> d]}

dm_try(t) ==
    /\ th[t].pc = "dm_try"
    /\ Takes(t, dm_try_next(th[t], Dir(th[t].h)))

\* _save_and_verify_model: the "Downloading" line when progress is set, then
\* open(destination_path, "wb")
sv_open_next(r, d) ==
    LET r1 == Say(r, r.progress, "Downloading model from Datature Hub...") IN
    IF ~d.exists
    THEN {[rec |-> Raise(r1, "FileNotFoundError: model.zip"), d |-> d]}
    ELSE {[rec |-> [r1 EXCEPT !.pc = "sv_get"],
           d |-> WithFile(d, "model.zip", File(<<>>))],
          [rec |-> Raise(r1, "OSError"), d |-> d]}

sv_open(t) ==
    /\ th[t].pc = "sv_open"
    /\ Takes(t, sv_open_next(th[t], Dir(th[t].h)))

\* A write that puts each chunk in front of what the file already holds.
Write_in_front(d, data) ==
    IF d.exists /\ d.files["model.zip"].present
    THEN WithFile(d, "model.zip", File(data \o d.files["model.zip"].data))
    ELSE d

\* model_file.write(data): the data reaches the file when it is still there.
Write(d, data) ==
    IF d.exists /\ d.files["model.zip"].present
    THEN WithFile(d, "model.zip", File(d.files["model.zip"].data \o data))
    ELSE d

\* if total_length is None: model_file.write(response.content); return.
\* The return leaves _save_and_verify_model, so download_model goes on with
\* the extraction.
after_unknown_length == "dm_extract"

\* requests.get(url, stream=True); raise_for_status; content-length
sv_get_next(r, d) ==
    LET me == [r EXCEPT !.gets = Bump(@)] IN
    {IF ~resp.reachable
     THEN [rec |-> [me EXCEPT !.pc = "dm_except", !.exc = "ConnectionError"],
           d |-> d]
     ELSE IF raise_for_status(resp.http)
     THEN [rec |-> [me EXCEPT !.pc = "dm_except", !.exc = "HTTPError"],
           d |-> d]
     ELSE IF ~resp.has_length
     THEN [rec |-> [me EXCEPT !.pc = after_unknown_length,
                              !.body = resp.body],
           d |-> Write(d, resp.body)]
     ELSE [rec |-> [me EXCEPT !.pc = "sv_iter", !.has_length = TRUE,
                              !.body = resp.body, !.data = resp.body],
           d |-> d] :
        resp \in DownloadResponses}

sv_get(t) ==
    /\ th[t].pc = "sv_get"
    /\ Takes(t, sv_get_next(th[t], Dir(th[t].h)))

\* for data in response.iter_content(chunk_size=4096): the progress bar when
\* progress is set, model_file.write(data); after the loop
\* sys.stderr.write("\n"), whatever progress is.
sv_iter_next(r, d) ==
    IF r.data = <<>>
    THEN {[rec |-> [Say(r, TRUE, "\n") EXCEPT !.pc = "sv_verify",
                                              !.has_length = FALSE],
           d |-> d]}
    ELSE {[rec |-> [Say(r, r.progress, "bar")
                       EXCEPT !.data = Drop(@, iter_chunk_size)],
           d |-> Write(d, Take(r.data, iter_chunk_size))],
          [rec |-> [r EXCEPT !.pc = "dm_except", !.exc = "ConnectionError",
                             !.has_length = FALSE, !.data = <<>>,
                             !.body = <<>>],
           d |-> d]}

sv_iter(t) ==
    /\ th[t].pc = "sv_iter"
    /\ Takes(t, sv_iter_next(th[t], Dir(th[t].h)))

RECURSIVE SayVerifying(_, _)
\* The "Verifying" line _get_sha256_hash_of_file writes for each chunk it
\* reads when progress is set.
SayVerifying(r, rest) ==
    IF Take(rest, hash_chunk_size) = <<>> THEN r
    ELSE SayVerifying(Say(r, r.progress, "Verifying"),
                      Drop(rest, hash_chunk_size))

\* A verification that compares the checksum only when progress is set.
sv_verify_next_when_progress(r, d, checksum) ==
    IF ~(d.exists /\ d.files["model.zip"].present)
    THEN {[rec |-> Raise(r, "FileNotFoundError: model.zip"), d |-> d]}
    ELSE LET r1 == Say(SayVerifying(r, d.files["model.zip"].data),
                       r.progress, "\n")
         IN
         IF r.progress
            /\ get_sha256_hash_of_file(d.files["model.zip"].data) # checksum
         THEN {[rec |-> Raise(r1, "RuntimeError: checksum"), d |-> d]}
         ELSE {[rec |-> [r1 EXCEPT !.pc = "dm_extract"], d |-> d]}

\* file_checksum = _get_sha256_hash_of_file(destination_path, progress);
\* compare with the checksum
sv_verify_next(r, d, checksum) ==
    IF ~(d.exists /\ d.files["model.zip"].present)
    THEN {[rec |-> Raise(r, "FileNotFoundError: model.zip"), d |-> d]}
    ELSE LET r1 == Say(SayVerifying(r, d.files["model.zip"].data),
                       r.progress, "\n")
         IN
         IF get_sha256_hash_of_file(d.files["model.zip"].data) # checksum
         THEN {[rec |-> Raise(r1, "RuntimeError: checksum"), d |-> d]}
         ELSE {[rec |-> [r1 EXCEPT !.pc = "dm_extract"], d |-> d]}

sv_verify(t) ==
    /\ th[t].pc = "sv_verify"
    /\ Takes(t, sv_verify_next(th[t], Dir(th[t].h), handle[th[t].h].checksum))

\* The "Extracting" line when progress is set, then
\* with zipfile.ZipFile(model_zip_path, "r") as model_zip_file
dm_extract_next(r, d) ==
    LET r1 == Say(r, r.progress, "Extracting model...") IN
    IF ~(d.exists /\ d.files["model.zip"].present)
    THEN {[rec |-> Raise(r1, "FileNotFoundError: model.zip"), d |-> d]}
    ELSE IF ~IsZip(d.files["model.zip"].data)
    THEN {[rec |-> Raise(r1, "BadZipFile"), d |-> d]}
    ELSE {[rec |-> [r1 EXCEPT !.pc = "dm_extractall", !.body = <<>>,
                              !.data = d.files["model.zip"].data,
                              !.todo = d.files["model.zip"].data],
           d |-> d]}

dm_extract(t) ==
    /\ th[t].pc = "dm_extract"
    /\ Takes(t, dm_extract_next(th[t], Dir(th[t].h)))

\* model_zip_file.extractall(model_folder), one member at a time
dm_extractall_next(r, d) ==
    IF r.todo = <<>>
    THEN {[rec |-> [r EXCEPT !.pc = "dm_remove", !.data = <<>>], d |-> d]}
    ELSE IF Head(r.todo) = 0
    THEN {[rec |-> [r EXCEPT !.pc = "dm_except", !.exc = "BadZipFile",
                             !.data = <<>>, !.todo = <<>>],
           d |-> d]}
    ELSE {[rec |-> [r EXCEPT !.todo = Tail(@)],
           d |-> [WithFile(d, MemberName(Head(r.todo)), File(r.data))
                     EXCEPT !.exists = TRUE]],
          [rec |-> [r EXCEPT !.pc = "dm_except", !.exc = "OSError",
                             !.data = <<>>, !.todo = <<>>],
           d |-> d]}

dm_extractall(t) ==
    /\ th[t].pc = "dm_extractall"
    /\ Takes(t, dm_extractall_next(th[t], Dir(th[t].h)))

\* A download_model that returns without removing the archive.
dm_remove_keeps(t) ==
    /\ th[t].pc = "dm_remove"
    /\ Goto(t, "dm_return")
    /\ UNCHANGED <<hub_endpoint, handle, disk>>

\* os.remove(model_zip_path)
dm_remove_next(r, d) ==
    IF ~(d.exists /\ d.files["model.zip"].present)
    THEN {[rec |-> Raise(r, "FileNotFoundError: model.zip"), d |-> d]}
    ELSE {[rec |-> [r EXCEPT !.pc = "dm_return"],
           d |-> WithFile(d, "model.zip", NoFile)],
          [rec |-> Raise(r, "OSError"), d |-> d]}

dm_remove(t) ==
    /\ th[t].pc = "dm_remove"
    /\ Takes(t, dm_remove_next(th[t], Dir(th[t].h)))

\* A download_model that starts the download again after a network failure.
dm_except_retry(t, Refusals) ==
    /\ th[t].pc = "dm_except"
    /\ IF th[t].exc \in {"ConnectionError", "HTTPError"}
       THEN /\ th' = [th EXCEPT ![t].pc = "sv_open", ![t].exc = ""]
            /\ UNCHANGED disk
       ELSE \E refused \in Refusals :
            /\ \E d \in rmtree(Dir(th[t].h), refused) : SetDir(th[t].h, d)
            /\ th' = [th EXCEPT ![t].pc = "raised",
                                ![t].rm_refused = refused /\ Dir(th[t].h).exists]
    /\ UNCHANGED <<hub_endpoint, handle>>

\* A rollback that removes the model folders of every hub directory.
dm_except_every_folder(t, Refusals) ==
    /\ th[t].pc = "dm_except"
    /\ \E refused \in Refusals :
        /\ disk' = [p \in Paths |-> AbsentDir]
        /\ th' = [th EXCEPT ![t].pc = "raised", ![t].rm_refused = FALSE]
    /\ UNCHANGED <<hub_endpoint, handle>>

\* A rollback that re-raises without removing the folder.
dm_except_no_rmtree(t, Refusals) ==
    /\ th[t].pc = "dm_except"
    /\ \E refused \in Refusals :
        th' = [th EXCEPT ![t].pc = "raised", ![t].rm_refused = FALSE]
    /\ UNCHANGED <<hub_endpoint, handle, disk>>

\* except Exception as exc: shutil.rmtree(model_folder, ignore_errors=True);
\* raise exc
dm_except_next(r, d, Refusals) ==
    UNION {{[rec |-> [r EXCEPT !.pc = "raised",
                               !.rm_refused = refused /\ d.exists],
             d |-> left] : left \in rmtree(d, refused)} :
           refused \in Refusals}

dm_except(t, Refusals) ==
    /\ th[t].pc = "dm_except"
    /\ Takes(t, dm_except_next(th[t], Dir(th[t].h), Refusals))

\* return model_folder
dm_return_next(r, d, model_dir) ==
    {[rec |-> IF r.op = "load_tf_model" THEN [r EXCEPT !.pc = "tf_load"]
              ELSE [r EXCEPT !.pc = "returned", !.val = model_dir],
      d |-> d]}

dm_return(t) ==
    /\ th[t].pc = "dm_return"
    /\ Takes(t, dm_return_next(th[t], Dir(th[t].h), handle[th[t].h].model_dir))

\* ------------------------------------------------------------ load_tf_model
\* A load_tf_model that downloads on every call.
needs_download_always(force_download, d) == TRUE

\* A load_tf_model that downloads only when forced.
needs_download_force_only(force_download, d) == force_download

\* if force_download or not os.path.exists(model_folder): download_model(...)
needs_download(force_download, d) == force_download \/ ~d.exists

\* A load_tf_model that asks the registry again for a forced download.
call_load_tf_model_refetch(t, h) ==
    /\ th[t].pc = "idle"
    /\ handle[h].alive
    /\ \E force_download \in BOOLEAN, progress \in BOOLEAN :
        /\ th' = [th EXCEPT ![t] =
                 [IdleRec EXCEPT
                    !.pc = IF force_download \/ ~Dir(h).exists
                           THEN "dm_mkdir" ELSE "tf_load",
                    !.downloads = IF force_download \/ ~Dir(h).exists
                                  THEN 1 ELSE 0,
                    !.op = "load_tf_model", !.h = h, !.model_type = "TF",
                    !.force = force_download, !.progress = progress]]
        /\ handle' = IF force_download
                     THEN [handle EXCEPT ![h].url.ep = hub_endpoint]
                     ELSE handle
    /\ UNCHANGED <<hub_endpoint, disk>>

call_load_tf_model(t, h) ==
    /\ th[t].pc = "idle"
    /\ handle[h].alive
    /\ \E force_download \in BOOLEAN, progress \in BOOLEAN :
        th' = [th EXCEPT ![t] =
                 [IdleRec EXCEPT
                    !.pc = IF needs_download(force_download, Dir(h))
                           THEN "dm_mkdir" ELSE "tf_load",
                    !.downloads = IF needs_download(force_download, Dir(h))
                                  THEN 1 ELSE 0,
                    !.op = "load_tf_model", !.h = h, !.model_type = "TF",
                    !.force = force_download, !.progress = progress]]
    /\ UNCHANGED <<hub_endpoint, handle, disk>>

\* tf.saved_model.load(os.path.join(model_folder, "saved_model"))
tf_load_next(r, d) ==
    {[rec |-> IF d.exists /\ d.files["saved_model"].present
              THEN [r EXCEPT !.pc = "returned",
                             !.val = d.files["saved_model"].data]
              ELSE [r EXCEPT !.pc = "raised", !.exc = "OSError: saved_model"],
      d |-> d]}

tf_load(t) ==
    /\ th[t].pc = "tf_load"
    /\ Takes(t, tf_load_next(th[t], Dir(th[t].h)))

\* ---------------------------------------------------------------- accessors
Ended(t, op, h, exc, val) ==
    [IdleRec EXCEPT !.pc = IF exc = "" THEN "returned" ELSE "raised",
                    !.op = op, !.h = h, !.exc = exc, !.val = val]

\* A load_label_map that creates the model folder it does not find.
load_label_map_creates(t, h) ==
    /\ th[t].pc = "idle"
    /\ handle[h].alive
    /\ LET d == Dir(h) IN
       IF d.exists /\ d.files["label_map.pbtxt"].present
       THEN /\ th' = [th EXCEPT ![t] =
                        Ended(t, "load_label_map", h, "",
                              d.files["label_map.pbtxt"].data)]
            /\ UNCHANGED disk
       ELSE /\ th' = [th EXCEPT ![t] =
                        Ended(t, "load_label_map", h,
                              "FileNotFoundError: label_map.pbtxt", <<>>)]
            /\ SetDir(h, [d EXCEPT !.exists = TRUE])
    /\ UNCHANGED <<hub_endpoint, handle>>

\* HubModel.load_label_map: open(label_map_path, "r") and parse it
load_label_map(t, h) ==
    /\ th[t].pc = "idle"
    /\ handle[h].alive
    /\ LET d == Dir(h) IN
       IF d.exists /\ d.files["label_map.pbtxt"].present
       THEN th' = [th EXCEPT ![t] =
                     Ended(t, "load_label_map", h, "",
                           d.files["label_map.pbtxt"].data)]
       ELSE th' = [th EXCEPT ![t] =
                     Ended(t, "load_label_map", h,
                           "FileNotFoundError: label_map.pbtxt", <<>>)]
    /\ UNCHANGED <<hub_endpoint, handle, disk>>

\* A get_pipeline_config_dir that tests the file alone.
pipeline_config_dir_one_test(model_dir, d) ==
    IF ~(d.exists /\ d.files["pipeline.config"].present)
    THEN [exc |-> "FileNotFoundError: pipeline.config not found, force_download",
          val |-> <<>>]
    ELSE [exc |-> "", val |-> model_dir \o <<"pipeline.config">>]

\* The body of HubModel.get_pipeline_config_dir for model folder `d`.
pipeline_config_dir(model_dir, d) ==
    IF ~d.exists
    THEN [exc |-> "FileNotFoundError: directory does not exist", val |-> <<>>]
    ELSE IF ~d.files["pipeline.config"].present
    THEN [exc |-> "FileNotFoundError: pipeline.config not found, force_download",
          val |-> <<>>]
    ELSE [exc |-> "", val |-> model_dir \o <<"pipeline.config">>]

get_pipeline_config_dir(t, h) ==
    /\ th[t].pc = "idle"
    /\ handle[h].alive
    /\ LET r == pipeline_config_dir(handle[h].model_dir, Dir(h)) IN
       th' = [th EXCEPT ![t] =
                Ended(t, "get_pipeline_config_dir", h, r.exc, r.val)]
    /\ UNCHANGED <<hub_endpoint, handle, disk>>

\* get_height_width.dims_from_config, on the content of pipeline.config
dims_from_config(config) == <<Head(config), Len(config)>>

\* A handle that never finds its dimensions cached.
cache_is_set_never(hw) == FALSE

\* if self._height_width_cache is not None
cache_is_set(hw) == hw # <<>>

\* HubModel.load_image_with_model_dimensions; the parse of the config and the
\* load of the image may each fail.
load_image_with_model_dimensions(t, h) ==
    /\ th[t].pc = "idle"
    /\ handle[h].alive
    /\ \E parse_ok \in BOOLEAN, image_ok \in BOOLEAN :
        LET op == "load_image_with_model_dimensions"
            r == pipeline_config_dir(handle[h].model_dir, Dir(h))
            image_exc == IF image_ok THEN "" ELSE "FileNotFoundError: image"
        IN
        IF cache_is_set(handle[h].height_width_cache)
        THEN /\ th' = [th EXCEPT ![t] =
                         Ended(t, op, h, image_exc,
                               handle[h].height_width_cache)]
             /\ UNCHANGED handle
        ELSE IF r.exc # ""
        THEN /\ th' = [th EXCEPT ![t] = Ended(t, op, h, r.exc, <<>>)]
             /\ UNCHANGED handle
        ELSE IF ~parse_ok
        THEN /\ th' = [th EXCEPT ![t] =
                         [Ended(t, op, h, "ValueError", <<>>)
                             EXCEPT !.computed = TRUE]]
             /\ UNCHANGED handle
        ELSE /\ handle' = [handle EXCEPT ![h].height_width_cache =
                    dims_from_config(Dir(h).files["pipeline.config"].data)]
             /\ th' = [th EXCEPT ![t] =
                         [Ended(t, op, h, image_exc,
                                dims_from_config(
                                    Dir(h).files["pipeline.config"].data))
                             EXCEPT !.computed = TRUE]]
    /\ UNCHANGED <<hub_endpoint, disk>>

\* ------------------------------------------------------------ specification
Init ==
    /\ hub_endpoint = config_default
    /\ handle = [h \in Handles |-> NoHandle]
    /\ disk = [p \in Paths |-> AbsentDir]
    /\ th = [t \in Threads |-> IdleRec]

\* One step of caller t on the handles H; Refusals are the answers the file
\* system may give to the removals of a rollback.
Step(t, H, Refusals) ==
    \/ set_hub_endpoint(t)
    \/ \E h \in H : Construct(t, h)
    \/ \E h \in H : call_download_model(t, h)
    \/ \E h \in H : call_load_tf_model(t, h)
    \/ \E h \in H : load_label_map(t, h)
    \/ \E h \in H : get_pipeline_config_dir(t, h)
    \/ \E h \in H : load_image_with_model_dimensions(t, h)
    \/ dm_mkdir(t)
    \/ dm_try(t)
    \/ sv_open(t)
    \/ sv_get(t)
    \/ sv_iter(t)
    \/ sv_verify(t)
    \/ dm_extract(t)
    \/ dm_extractall(t)
    \/ dm_remove(t)
    \/ dm_except(t, Refusals)
    \/ dm_return(t)
    \/ tf_load(t)
    \/ Finish(t)

\* One caller and one handle: spec section 5 has the calls on a handle
\* serialized by the caller.
MainThreads == {"t1"}
MainHandles == {"h1"}

Next == \E t \in MainThreads : Step(t, MainHandles, BOOLEAN)

Spec == Init /\ [][Next]_vars

\* The same program on a file system that never refuses a removal.
NextCleanFS == \E t \in MainThreads : Step(t, MainHandles, {FALSE})

SpecCleanFS == Init /\ [][NextCleanFS]_vars

\* The steps of caller t inside download_model.
DownloadStep(t, Refusals) ==
    \/ dm_mkdir(t)
    \/ dm_try(t)
    \/ sv_open(t)
    \/ sv_get(t)
    \/ sv_iter(t)
    \/ sv_verify(t)
    \/ dm_extract(t)
    \/ dm_extractall(t)
    \/ dm_remove(t)
    \/ dm_except(t, Refusals)
    \/ dm_return(t)

\* The steps of a population call of caller t once it is entered, and the
\* caller taking its result.
CallStep(t, Refusals) ==
    \/ DownloadStep(t, Refusals)
    \/ tf_load(t)
    \/ Finish(t)

\* The population calls (download_model, load_tf_model) of caller t on the
\* handles H.
PopulationStep(t, H, Refusals) ==
    \/ \E h \in H : call_download_model(t, h)
    \/ \E h \in H : call_load_tf_model(t, h)
    \/ CallStep(t, Refusals)

\* A handle as HubModel.__init__ leaves it when the registry answered ready.
BoundHandle(hub_dir) ==
    [alive |-> TRUE, model_key |-> "k", project_secret |-> NoneVal,
     height_width_cache |-> <<>>,
     url |-> [ep |-> config_default, key |-> "k"], checksum |-> RegistryHash,
     model_dir |-> model_dir_of(hub_dir, "k"), posts |-> 1]

\* Two handles constructed with different hub directories, each used by its
\* own caller, on a file system that never refuses a removal: the first
\* caller calls download_model and load_tf_model, the second download_model.
InitTwoHandles ==
    /\ hub_endpoint = config_default
    /\ handle = [h \in Handles |->
                   IF h = "h1" THEN BoundHandle(NoneVal)
                   ELSE BoundHandle("/hub")]
    /\ disk = [p \in Paths |-> AbsentDir]
    /\ th = [t \in Threads |-> IdleRec]

NextTwoHandles ==
    \/ PopulationStep("t1", {"h1"}, {FALSE})
    \/ call_download_model("t2", "h2")
    \/ CallStep("t2", {FALSE})

SpecTwoHandles == InitTwoHandles /\ [][NextTwoHandles]_vars

\* One handle used by two callers at once, on a file system that never
\* refuses a removal: the first caller calls download_model once, the second
\* calls it again and again.
InitSameHandle ==
    /\ hub_endpoint = config_default
    /\ handle = [h \in Handles |->
                   IF h = "h1" THEN BoundHandle(NoneVal) ELSE NoHandle]
    /\ disk = [p \in Paths |-> AbsentDir]
    /\ th = [t \in Threads |-> IdleRec]

NextSameHandle ==
    \/ call_download_model("t1", "h1")
    \/ DownloadStep("t1", {FALSE})
    \/ call_download_model("t2", "h1")
    \/ DownloadStep("t2", {FALSE})
    \/ Finish("t2")

SpecSameHandle == InitSameHandle /\ [][NextSameHandle]_vars

\* ------------------------------------------------------------------ claims
HasEnded(t) == th[t].pc \in {"returned", "raised"}

\* The positions of a download_model call that has not ended.
InFlightPcs ==
    {"dm_mkdir", "dm_try", "sv_open", "sv_get", "sv_iter", "sv_verify",
     "dm_extract", "dm_extractall", "dm_remove", "dm_except", "dm_return"}

PopulatingOps == {"download_model", "load_tf_model"}

\* The failures of the download / verify / extract / delete sequence.
TryFailures ==
    {"FileNotFoundError: model.zip", "OSError",
     "ConnectionError", "HTTPError", "RuntimeError: checksum", "BadZipFile"}

ZipOf(h) == Dir(h).files["model.zip"]

Extracted == {"saved_model", "label_map.pbtxt", "pipeline.config"}

Complete(d) == \A f \in Extracted : d.files[f].present

Verified(d, checksum) ==
    \A f \in Extracted :
        d.files[f].present =>
            get_sha256_hash_of_file(d.files[f].data) = checksum

\* C1: whenever download_model is extracting or has extracted the archive,
\* the archive in the model folder has the SHA-256 the registry gave, with or
\* without a content-length header on the download.
C1_ExtractOnlyVerified ==
    \A t \in Threads :
        th[t].pc \in {"dm_extract", "dm_extractall", "dm_remove"} =>
            /\ ZipOf(th[t].h).present
            /\ get_sha256_hash_of_file(ZipOf(th[t].h).data)
                 = handle[th[t].h].checksum

\* C2 as claimed: when download_model raises a failure of its download /
\* verify / extract / delete sequence, the model folder does not exist.
C2_AllOrNothing ==
    \A t \in Threads :
        (th[t].pc = "raised" /\ th[t].op \in PopulatingOps
           /\ th[t].exc \in TryFailures) =>
            ~Dir(th[t].h).exists

\* C2 as amended: when download_model raises such a failure and the file
\* system did not refuse the removal, the model folder does not exist; and
\* the rollback always ends by raising the exception that started it.
C2_Rollback ==
    /\ [](\A t \in Threads :
            (th[t].pc = "raised" /\ th[t].op \in PopulatingOps
               /\ th[t].exc \in TryFailures
               /\ ~th[t].rm_refused) => ~Dir(th[t].h).exists)
    /\ [][\A t \in Threads :
            (th[t].pc = "dm_except" /\ th'[t] # th[t]) =>
                (th'[t].pc = "raised" /\ th'[t].exc = th[t].exc)]_vars

\* A forced load_tf_model whose archive turned out damaged during extraction
\* has raised BadZipFile and the model folder is gone.
C2_Witness ==
    \E t \in Threads :
        /\ th[t].pc = "raised"
        /\ th[t].exc = "BadZipFile"
        /\ th[t].op = "load_tf_model"
        /\ th[t].force
        /\ th[t].gets = 1
        /\ ~th[t].rm_refused
        /\ ~Dir(th[t].h).exists

\* C3: while no download_model call is in flight, a model folder that exists
\* holds saved_model, label_map.pbtxt and pipeline.config, all extracted from
\* an archive with the registry's checksum; and the reuse path of
\* load_tf_model loads from such a folder only.
C3_CacheEntryInvariant ==
    /\ (\A t \in Threads : th[t].pc \notin InFlightPcs) =>
          \A h \in Handles :
              (handle[h].alive /\ Dir(h).exists) =>
                  /\ Complete(Dir(h))
                  /\ Verified(Dir(h), handle[h].checksum)
    /\ \A t \in Threads :
          (th[t].pc = "tf_load" /\ th[t].downloads = 0) =>
              Complete(Dir(th[t].h))

\* C4: load_tf_model calls download_model exactly when force_download is set
\* or the model folder does not exist; a call that reuses the folder makes no
\* network request, goes on to load from the same folder and never changes
\* the disk.
C4_IdempotentReuse ==
    /\ [](\A t \in Threads :
            (th[t].op = "load_tf_model" /\ th[t].downloads = 0) =>
                /\ th[t].gets = 0
                /\ th[t].posts = 0
                /\ ~th[t].force
                /\ th[t].pc \in {"tf_load", "returned", "raised"})
    /\ [][\A t \in Threads :
            (th[t].pc = "idle" /\ th'[t].op = "load_tf_model") =>
                /\ (th'[t].downloads = 1) <=>
                      (th'[t].force \/ ~Dir(th'[t].h).exists)
                /\ (th'[t].pc = "dm_mkdir") <=> (th'[t].downloads = 1)]_vars
    /\ [][\A t \in Threads :
            (th'[t].op = "load_tf_model" /\ th'[t].downloads = 0) =>
                disk' = disk]_vars

\* A non-forced load_tf_model has returned the model of an existing folder
\* without any request.
C4_Witness ==
    \E t \in Threads :
        /\ th[t].pc = "returned"
        /\ th[t].op = "load_tf_model"
        /\ ~th[t].force
        /\ th[t].downloads = 0
        /\ th[t].gets = 0
        /\ Dir(th[t].h).exists

RegistryOk(resp) ==
    resp.reachable /\ 200 <= resp.http /\ resp.http < 300
       /\ resp.status = "ready"

C7_ResolveOnce ==
    /\ [](\A h \in Handles : handle[h].alive => handle[h].posts = 1)
    /\ [](\A t \in Threads :
            /\ th[t].op # "__init__" => th[t].posts = 0
            /\ (th[t].op = "__init__" /\ HasEnded(t)) => th[t].posts = 1
            /\ (th[t].op = "__init__" /\ th[t].pc = "returned") =>
                  handle[th[t].h].url.ep = hub_endpoint)
    /\ [][\A h \in Handles :
            handle[h].alive =>
                /\ handle'[h].alive
                /\ handle'[h].url = handle[h].url
                /\ handle'[h].checksum = handle[h].checksum
                /\ handle'[h].posts = handle[h].posts]_vars

\* A forced load_tf_model has re-populated the folder of a handle resolved
\* at an endpoint that has been replaced since.
C7_Witness ==
    \E t \in Threads :
        /\ th[t].pc = "returned"
        /\ th[t].op = "load_tf_model"
        /\ th[t].force
        /\ th[t].gets = 1
        /\ handle[th[t].h].url.ep # hub_endpoint

\* C8: get_pipeline_config_dir returns the path of pipeline.config in the
\* model folder exactly when the folder exists and holds the file; without
\* the folder it raises the "does not exist" error, with the folder but
\* without the file the "force_download" error; it changes nothing.
C8_PipelineConfigDir ==
    /\ [](\A t \in Threads :
            (HasEnded(t) /\ th[t].op = "get_pipeline_config_dir") =>
                LET d == Dir(th[t].h) IN
                /\ (th[t].pc = "returned") <=>
                      (d.exists /\ d.files["pipeline.config"].present)
                /\ th[t].pc = "returned" =>
                      th[t].val = handle[th[t].h].model_dir
                                    \o <<"pipeline.config">>
                /\ ~d.exists =>
                      th[t].exc = "FileNotFoundError: directory does not exist"
                /\ (d.exists /\ ~d.files["pipeline.config"].present) =>
                      th[t].exc =
                        "FileNotFoundError: pipeline.config not found, force_download")
    /\ [][\A t \in Threads :
            (th[t].pc = "idle" /\ th'[t].op = "get_pipeline_config_dir") =>
                /\ disk' = disk
                /\ handle' = handle
                /\ hub_endpoint' = hub_endpoint]_vars

\* get_pipeline_config_dir has raised the "force_download" error on a folder
\* that exists without pipeline.config.
C8_Witness ==
    \E t \in Threads :
        /\ th[t].pc = "raised"
        /\ th[t].op = "get_pipeline_config_dir"
        /\ th[t].exc =
             "FileNotFoundError: pipeline.config not found, force_download"
        /\ Dir(th[t].h).exists
        /\ Dir(th[t].h).files["saved_model"].present

DimsOp == "load_image_with_model_dimensions"

NotFoundErrors ==
    {"FileNotFoundError: directory does not exist",
     "FileNotFoundError: pipeline.config not found, force_download"}

\* C9: a handle's dimensions are computed only while none are cached, cached
\* only by a computation that succeeded, from the pipeline.config then on
\* disk, and never changed afterwards; a call that finds them cached returns
\* them whatever the model folder holds.
C9_DimensionMemo ==
    /\ [][\A h \in Handles :
            cache_is_set(handle[h].height_width_cache) =>
                handle'[h].height_width_cache = handle[h].height_width_cache]_vars
    /\ [][\A t \in Threads :
            (th[t].pc = "idle" /\ th'[t].op = DimsOp) =>
                LET h == th'[t].h
                    old == handle[h].height_width_cache
                    new == handle'[h].height_width_cache
                IN
                /\ th'[t].computed => old = <<>>
                /\ old # <<>> =>
                      /\ th'[t].val = old
                      /\ th'[t].exc \notin (NotFoundErrors \cup {"ValueError"})
                /\ (old = <<>> /\ new # <<>>) =>
                      /\ th'[t].computed
                      /\ Dir(h).files["pipeline.config"].present
                      /\ new = dims_from_config(
                                  Dir(h).files["pipeline.config"].data)
                      /\ th'[t].val = new
                /\ th'[t].exc \in (NotFoundErrors \cup {"ValueError"}) =>
                      new = <<>>]_vars
    /\ [][\A h \in Handles :
            handle'[h].height_width_cache # handle[h].height_width_cache =>
                \E t \in Threads :
                    /\ th[t].pc = "idle"
                    /\ th'[t].op = DimsOp
                    /\ th'[t].h = h]_vars

\* A dimension request has returned the cached pair although the model
\* folder is gone.
C9_Witness ==
    \E t \in Threads :
        /\ th[t].pc = "returned"
        /\ th[t].op = DimsOp
        /\ ~th[t].computed
        /\ th[t].val = handle[th[t].h].height_width_cache
        /\ ~Dir(th[t].h).exists

SubComponentOps ==
    {"load_label_map", "get_pipeline_config_dir", DimsOp}

\* C10 as claimed: a call of load_tf_model or of a sub-component accessor
\* that found no model folder has called download_model.
C10_TransparentPopulation ==
    \A t \in Threads :
        (HasEnded(t) /\ th[t].op \in (SubComponentOps \cup {"load_tf_model"})
           /\ th[t].downloads = 0) =>
            Dir(th[t].h).exists

\* C10 as amended: load_tf_model alone calls download_model when the model
\* folder is missing; load_label_map, get_pipeline_config_dir and
\* load_image_with_model_dimensions never download, and on a missing folder
\* they raise their not-found error, unless the dimensions are cached.
C10_OnlyLoadPopulates ==
    \A t \in Threads :
        /\ (HasEnded(t) /\ th[t].op = "load_tf_model"
              /\ th[t].downloads = 0) => Dir(th[t].h).exists
        /\ (HasEnded(t) /\ th[t].op \in SubComponentOps) =>
              /\ th[t].downloads = 0
              /\ th[t].gets = 0
              /\ ~Dir(th[t].h).exists =>
                    \/ th[t].exc \in
                         (NotFoundErrors
                            \cup {"FileNotFoundError: label_map.pbtxt"})
                    \/ /\ th[t].op = DimsOp
                       /\ ~th[t].computed
                       /\ th[t].val = handle[th[t].h].height_width_cache
                       /\ th[t].val # <<>>

\* load_label_map has raised on a model folder that does not exist, and
\* nothing was downloaded.
C10_Witness ==
    \E t \in Threads :
        /\ th[t].pc = "raised"
        /\ th[t].op = "load_label_map"
        /\ th[t].exc = "FileNotFoundError: label_map.pbtxt"
        /\ th[t].gets = 0
        /\ ~Dir(th[t].h).exists

\* The folder of a download_model call that went through: it exists, the
\* archive is gone and something was extracted.
Populated(d) ==
    /\ d.exists
    /\ ~d.files["model.zip"].present
    /\ \E f \in Extracted : d.files[f].present

\* C11 as claimed: when a call that ran download_model has ended, returned
\* or raised, the model folder holds no model.zip.
C11_NoArchiveLeft ==
    \A t \in Threads :
        (HasEnded(t) /\ th[t].op \in PopulatingOps /\ th[t].downloads = 1) =>
            ~ZipOf(th[t].h).present

\* C11 as amended: when such a call has ended the model folder holds no
\* model.zip, unless the file system refused the removal of the rollback;
\* and model.zip leaves a folder that stays only by the os.remove that
\* follows the extraction of every member, or by a rollback.
C11_ArchiveRemoved ==
    /\ [](\A t \in Threads :
            (HasEnded(t) /\ th[t].op \in PopulatingOps
               /\ th[t].downloads = 1 /\ ~th[t].rm_refused) =>
                ~ZipOf(th[t].h).present)
    /\ [][\A t \in Threads :
            (th[t].pc \in InFlightPcs /\ th'[t] # th[t]
               /\ ZipOf(th[t].h).present /\ ~ZipOf(th[t].h).present') =>
                \/ th[t].pc = "dm_except"
                \/ /\ th[t].pc = "dm_remove"
                   /\ th'[t].pc = "dm_return"
                   /\ \A i \in 1..Len(ZipOf(th[t].h).data) :
                         Dir(th[t].h).files[
                             MemberName(ZipOf(th[t].h).data[i])]
                           = File(ZipOf(th[t].h).data)]_vars

\* A forced load_tf_model has downloaded, extracted and returned, and the
\* folder holds the three entries and no model.zip.
C11_Witness ==
    \E t \in Threads :
        /\ th[t].pc = "returned"
        /\ th[t].op = "load_tf_model"
        /\ th[t].force
        /\ th[t].gets = 1
        /\ Complete(Dir(th[t].h))
        /\ ~ZipOf(th[t].h).present

\* C14: while the chunks of a response with a content-length arrive the file
\* holds the part of the body received so far, in arrival order; when the
\* download step is over, with or without the header, model.zip holds
\* exactly the response body; and a missing header is not an error: the GET
\* step fails only when the server is unreachable or answers an error status.
C14_ContentFidelity ==
    /\ [](\A t \in Threads :
            th[t].pc = "sv_iter" =>
                /\ ZipOf(th[t].h).present
                /\ ZipOf(th[t].h).data \o th[t].data = th[t].body)
    /\ [](\A t \in Threads :
            th[t].pc \in {"sv_verify", "dm_extract"} =>
                /\ ZipOf(th[t].h).present
                /\ ZipOf(th[t].h).data = th[t].body)
    /\ [][\A t \in Threads :
            th[t].pc = "sv_get" /\ th'[t] # th[t] =>
                \/ th'[t].pc = "dm_except"
                     /\ th'[t].exc \in {"ConnectionError", "HTTPError"}
                \/ th'[t].pc = "sv_iter" /\ th'[t].has_length
                \/ th'[t].pc = "dm_extract" /\ ~th'[t].has_length
                     /\ th'[t].exc = ""]_vars

\* A body of three blocks arrived in two chunks and is in the file, ready
\* for the checksum.
C14_Witness ==
    \E t \in Threads :
        /\ th[t].pc = "sv_verify"
        /\ th[t].body = <<2, 1, 3>>
        /\ ZipOf(th[t].h).data = <<2, 1, 3>>

\* C13: a call of download_model or load_tf_model makes at most one GET
\* and no request to the registry; a construction makes exactly one POST
\* and no GET; and a failure is surfaced without another attempt: the step
\* that fails goes to the rollback (or, for mkdir, straight to the caller),
\* the rollback goes to the caller with the same exception, and no step of
\* a call follows a failure with anything else.
C13_NoRetry ==
    /\ [](\A t \in Threads :
            /\ th[t].op \in PopulatingOps =>
                  th[t].gets <= 1 /\ th[t].posts = 0
            /\ (th[t].op \in PopulatingOps /\ th[t].downloads = 0) =>
                  th[t].gets = 0
            /\ (th[t].op = "__init__" /\ HasEnded(t)) =>
                  th[t].posts = 1 /\ th[t].gets = 0)
    /\ [][\A t \in Threads :
            /\ (th[t].pc \in InFlightPcs /\ th[t].exc = ""
                  /\ th'[t].exc # "") =>
                    /\ th'[t].pc \in {"dm_except", "raised"}
                    /\ th'[t].gets <= 1
            /\ (th[t].pc = "dm_except" /\ th'[t] # th[t]) =>
                    /\ th'[t].pc = "raised"
                    /\ th'[t].exc = th[t].exc
                    /\ th'[t].gets = th[t].gets
            /\ (th[t].pc = "raised" /\ th'[t] # th[t]) =>
                    th'[t].pc = "idle"]_vars

\* The one GET of a download_model call failed and the call has raised
\* that failure, having made no other request.
C13_Witness ==
    \E t \in Threads :
        /\ th[t].pc = "raised"
        /\ th[t].op = "download_model"
        /\ th[t].exc = "ConnectionError"
        /\ th[t].gets = 1
        /\ th[t].posts = 0

\* How far a download_model call is from its end: the position, then what
\* is left of the chunks and of the members.
PcRank(pc) ==
    CASE pc = "dm_mkdir" -> 11
      [] pc = "dm_try" -> 10
      [] pc = "sv_open" -> 9
      [] pc = "sv_get" -> 8
      [] pc = "sv_iter" -> 7
      [] pc = "sv_verify" -> 6
      [] pc = "dm_extract" -> 5
      [] pc = "dm_extractall" -> 4
      [] pc = "dm_remove" -> 3
      [] pc = "dm_return" -> 2
      [] pc = "dm_except" -> 1
      [] OTHER -> 0

LeftToDo(r) == Len(r.data) + Len(r.todo)

\* Some step of the download_model call of `t` can be taken.
CanStep(t) ==
    ENABLED (\/ dm_mkdir(t) \/ dm_try(t) \/ sv_open(t) \/ sv_get(t)
             \/ sv_iter(t) \/ sv_verify(t) \/ dm_extract(t)
             \/ dm_extractall(t) \/ dm_remove(t) \/ dm_except(t, {FALSE})
             \/ dm_return(t))

\* C15 as claimed: a download_model call that has ended has either
\* returned with the folder populated, or raised with the folder absent.
C15_TwoOutcomes ==
    \A t \in Threads :
        (HasEnded(t) /\ th[t].op = "download_model") =>
            \/ th[t].pc = "returned" /\ Populated(Dir(th[t].h))
            \/ th[t].pc = "raised" /\ ~Dir(th[t].h).exists

\* C15 as amended: a download_model call that has ended has returned with
\* the folder populated, or raised with the folder absent unless the file
\* system refused the removal; a call leaves the download_model steps only
\* from the return (folder populated), from the rollback (folder removed
\* unless refused) or from a failed mkdir (folder absent before and after);
\* and the call ends: a step can always be taken and every step brings the
\* call nearer its end.
C15_EndStates ==
    /\ [](\A t \in Threads :
            (HasEnded(t) /\ th[t].op = "download_model") =>
                \/ th[t].pc = "returned" /\ Populated(Dir(th[t].h))
                \/ /\ th[t].pc = "raised"
                   /\ ~Dir(th[t].h).exists \/ th[t].rm_refused)
    /\ [](\A t \in Threads : th[t].pc \in InFlightPcs => CanStep(t))
    /\ [][\A t \in Threads :
            (th[t].pc \in InFlightPcs /\ th'[t] # th[t]) =>
                /\ \/ PcRank(th'[t].pc) < PcRank(th[t].pc)
                   \/ /\ PcRank(th'[t].pc) = PcRank(th[t].pc)
                      /\ LeftToDo(th'[t]) < LeftToDo(th[t])
                /\ th'[t].pc \notin InFlightPcs =>
                    \/ /\ th[t].pc = "dm_return"
                       /\ th'[t].pc \in {"returned", "tf_load"}
                       /\ Populated(Dir(th[t].h)')
                    \/ /\ th[t].pc = "dm_except"
                       /\ th'[t].pc = "raised"
                       /\ ~Dir(th[t].h)'.exists \/ th'[t].rm_refused
                    \/ /\ th[t].pc = "dm_mkdir"
                       /\ th'[t].pc = "raised"
                       /\ th'[t].exc = "OSError: mkdir"
                       /\ ~Dir(th[t].h).exists
                       /\ ~Dir(th[t].h)'.exists]_vars

\* A download_model call failed the checksum, the rollback removed the
\* folder and the call has raised.
C15_Witness ==
    \E t \in Threads :
        /\ th[t].pc = "raised"
        /\ th[t].op = "download_model"
        /\ th[t].exc = "RuntimeError: checksum"
        /\ ~th[t].rm_refused
        /\ ~Dir(th[t].h).exists

\* C17: when a call that ran download_model has returned, every entry of
\* the model folder comes from one archive, the one the call extracted
\* (each call extracts at least one member, so one common origin is that
\* call's archive); nothing is left of an earlier population.
C17_SingleTransaction ==
    \A t \in Threads :
        (th[t].pc = "returned" /\ th[t].op \in PopulatingOps
           /\ th[t].downloads = 1) =>
            \A f, g \in Extracted :
                (Dir(th[t].h).files[f].present
                   /\ Dir(th[t].h).files[g].present) =>
                    Dir(th[t].h).files[f].data = Dir(th[t].h).files[g].data

\* C18 as claimed: a download_model call with a model type other than TF
\* that has ended has raised ValueError, has made no request, and the model
\* folder does not exist.
C18_ValueErrorAbsent ==
    \A t \in Threads :
        (HasEnded(t) /\ th[t].op = "download_model"
           /\ th[t].model_type # "TF") =>
            /\ th[t].pc = "raised"
            /\ th[t].exc = "ValueError"
            /\ th[t].gets = 0 /\ th[t].posts = 0
            /\ ~Dir(th[t].h).exists

\* C18 as amended: a download_model call with a model type other than TF
\* never makes a request; when it has ended it has raised ValueError, or
\* the OSError of the mkdir that precedes the test, and the model folder
\* does not exist unless the file system refused the removal.
C18_UnsupportedType ==
    \A t \in Threads :
        (th[t].op = "download_model" /\ th[t].model_type # "TF") =>
            /\ th[t].gets = 0 /\ th[t].posts = 0
            /\ th[t].pc \in {"dm_mkdir", "dm_try", "dm_except", "raised"}
            /\ th[t].pc = "dm_except" => th[t].exc = "ValueError"
            /\ th[t].pc = "raised" =>
                /\ th[t].exc \in {"ValueError", "OSError: mkdir"}
                /\ ~th[t].rm_refused => ~Dir(th[t].h).exists

\* A download_model call with another model type has raised ValueError and
\* the folder is gone, no request made.
C18_Witness ==
    \E t \in Threads :
        /\ th[t].pc = "raised"
        /\ th[t].op = "download_model"
        /\ th[t].model_type # "TF"
        /\ th[t].exc = "ValueError"
        /\ th[t].gets = 0
        /\ ~Dir(th[t].h).exists

\* The same call at its rollback, with the populated folder it is about to
\* remove.
C18_PopulatedBefore ==
    \E t \in Threads :
        /\ th[t].pc = "dm_except"
        /\ th[t].exc = "ValueError"
        /\ Complete(Dir(th[t].h))

ReadOnlyOps == {"load_label_map", "get_pipeline_config_dir"}

\* C19: a call of load_label_map or get_pipeline_config_dir, returning or
\* raising, makes no request and leaves the disk, every handle and the
\* endpoint as they were; a call of load_image_with_model_dimensions makes
\* no request, leaves the disk and the endpoint as they were, and changes
\* of the handles at most the dimension cache of its own handle, from unset
\* to the dimensions it computed.
C19_ReadOnlyAccessors ==
    /\ [][\A t \in Threads :
            (th[t].pc = "idle" /\ th'[t].op \in ReadOnlyOps) =>
                /\ HasEnded(t)'
                /\ th'[t].gets = 0 /\ th'[t].posts = 0
                /\ disk' = disk
                /\ handle' = handle
                /\ hub_endpoint' = hub_endpoint]_vars
    /\ [][\A t \in Threads :
            (th[t].pc = "idle" /\ th'[t].op = DimsOp) =>
                /\ HasEnded(t)'
                /\ th'[t].gets = 0 /\ th'[t].posts = 0
                /\ disk' = disk
                /\ hub_endpoint' = hub_endpoint
                /\ \/ handle' = handle
                   \/ /\ ~cache_is_set(handle[th'[t].h].height_width_cache)
                      /\ th'[t].computed
                      /\ handle' =
                           [handle EXCEPT ![th'[t].h].height_width_cache =
                               th'[t].val]]_vars

\* load_image_with_model_dimensions has computed the dimensions, cached
\* them on its handle and returned them; the folder still holds its entries.
C19_Witness ==
    \E t \in Threads :
        /\ th[t].pc = "returned"
        /\ th[t].op = DimsOp
        /\ th[t].computed
        /\ handle[th[t].h].height_width_cache = th[t].val
        /\ Complete(Dir(th[t].h))

\* The handle a step of caller t works on.
HandleOf(t) == IF th[t].h # "" THEN th[t].h ELSE th'[t].h

\* C12: with two handles on different model folders, a step of one caller
\* changes neither the other caller's call nor any folder but its own
\* handle's, no folder changes without a step of a call on it, and the
\* handles stay as constructed; so under every interleaving each call ends
\* as it does alone: returned with its folder populated, or raised with its
\* folder absent, whatever the other call did in between.
C12_Independence ==
    /\ [][\A t \in Threads :
            th'[t] # th[t] =>
                /\ \A u \in Threads \ {t} : th'[u] = th[u]
                /\ \A p \in Paths \ {handle[HandleOf(t)].model_dir} :
                      disk'[p] = disk[p]]_vars
    /\ [][/\ disk' # disk => \E t \in Threads : th'[t] # th[t]
          /\ handle' = handle]_vars
    /\ [](\A t \in Threads :
            (HasEnded(t) /\ th[t].op = "download_model") =>
                \/ th[t].pc = "returned" /\ Populated(Dir(th[t].h))
                \/ th[t].pc = "raised" /\ ~Dir(th[t].h).exists)
    /\ [](handle["h1"].model_dir # handle["h2"].model_dir)

\* One call has failed its checksum and its rollback has removed its
\* folder, while the call on the other handle is extracting and has its
\* first entries in its own folder.
C12_Witness ==
    \E t, u \in Threads :
        /\ th[t].pc = "raised"
        /\ th[t].exc = "RuntimeError: checksum"
        /\ ~Dir(th[t].h).exists
        /\ th[u].pc = "dm_extractall"
        /\ th[u].h # th[t].h
        /\ Dir(th[u].h).files["saved_model"].present
        /\ ZipOf(th[u].h).present

\* C16: populations on one model folder are not synchronized: while a call
\* is anywhere in download_model another caller can enter download_model on
\* the same handle, and a rollback removes the folder whatever the other
\* call is doing.  (The witness is the race that follows: a download_model
\* call has returned although its folder lacks the saved model.)
C16_Unsynchronized ==
    /\ [](\A t, u \in Threads :
            (t # u /\ th[t].pc \in InFlightPcs /\ th[u].pc = "idle") =>
                ENABLED call_download_model(u, th[t].h))
    /\ [][\A t \in Threads :
            (th[t].pc = "dm_except" /\ th'[t].pc = "raised") =>
                ~Dir(th[t].h)'.exists]_vars

\* A download_model call has returned its folder although the folder holds
\* no saved model: the other call's rollback removed the folder while this
\* one was extracting.
C16_Witness ==
    \E t \in Threads :
        /\ th[t].pc = "returned"
        /\ th[t].op = "download_model"
        /\ Dir(th[t].h).exists
        /\ ~Dir(th[t].h).files["saved_model"].present
        /\ Dir(th[t].h).files["pipeline.config"].present

\* What the step of a population call at position r.pc may do, from the
\* caller's locals r, the model folder d and the handle hd.
Outcomes(r, d, hd, Refusals) ==
    CASE r.pc = "dm_mkdir" -> dm_mkdir_next(r, d)
      [] r.pc = "dm_try" -> dm_try_next(r, d)
      [] r.pc = "sv_open" -> sv_open_next(r, d)
      [] r.pc = "sv_get" -> sv_get_next(r, d)
      [] r.pc = "sv_iter" -> sv_iter_next(r, d)
      [] r.pc = "sv_verify" -> sv_verify_next(r, d, hd.checksum)
      [] r.pc = "dm_extract" -> dm_extract_next(r, d)
      [] r.pc = "dm_extractall" -> dm_extractall_next(r, d)
      [] r.pc = "dm_remove" -> dm_remove_next(r, d)
      [] r.pc = "dm_except" -> dm_except_next(r, d, Refusals)
      [] r.pc = "dm_return" -> dm_return_next(r, d, hd.model_dir)
      [] r.pc = "tf_load" -> tf_load_next(r, d)

\* Outcomes without the flag and without what was written to stderr.
Quiet(outs) ==
    {[rec |-> [o.rec EXCEPT !.progress = FALSE, !.stderr = <<>>],
      d |-> o.d] : o \in outs}

\* The same call made with the other value of progress.
OtherProgress(r) == [r EXCEPT !.progress = ~@]

\* C20: at every step of a population call, the call made with the other
\* value of progress has the same possible outcomes (next position,
\* locals, requests counted, exception, value, model folder) for the same
\* answers of the network and the file system; only what is written to
\* stderr differs.  Two calls that differ in progress alone therefore stay
\* equal step by step in everything but stderr.
C20_ProgressOnlyOutput ==
    \A t \in Threads :
        th[t].pc \in InFlightPcs \cup {"tf_load"} =>
            Quiet(Outcomes(th[t], Dir(th[t].h), handle[th[t].h], BOOLEAN))
              = Quiet(Outcomes(OtherProgress(th[t]), Dir(th[t].h),
                               handle[th[t].h], BOOLEAN))

\* A download_model call with progress set has returned, having written
\* the lines of the download, the verification and the extraction.
C20_Witness ==
    \E t \in Threads :
        /\ th[t].pc = "returned"
        /\ th[t].op = "download_model"
        /\ th[t].progress
        /\ \E i \in 1..Len(th[t].stderr) : th[t].stderr[i] = "Verifying"
        /\ th[t].stderr[Len(th[t].stderr)] = "Extracting model..."

====
